---- MODULE Spec2Model ----
(***************************************************************************)
(* Model of deploy_django.py: the interactive assistant that collects a    *)
(* deployment configuration, renders a systemd unit and an nginx site,     *)
(* creates directories and runs the control commands.                      *)
(*                                                                         *)
(* A Python str is a sequence of one-character strings.  A text with       *)
(* several lines is the sequence of its lines, i.e. text.split("\n"); the  *)
(* values read by input() never hold a newline, so interpolating them into *)
(* a template never changes the number of lines.                           *)
(***************************************************************************)
EXTENDS Integers, Sequences, FiniteSets, TLC

\* Longest port input that is enumerated.
MaxPortLen == 2

\* ------------------------------------------------------------------------
\* Characters and the str methods the script uses
\* ------------------------------------------------------------------------

\* U+00B2 SUPERSCRIPT TWO: one character of the input for which
\* str.isdigit() is True and which int() does not accept.
SUPERSCRIPT_TWO == "²"

WHITESPACE == {" ", "\t"}

DECIMAL == <<"0","1","2","3","4","5","6","7","8","9">>

UPPERCASE == <<"A","B","C","D","E","F","G","H","I","J","K","L","M","N","O","P","Q","R","S","T","U","V","W","X","Y","Z">>

LOWERCASE == <<"a","b","c","d","e","f","g","h","i","j","k","l","m","n","o","p","q","r","s","t","u","v","w","x","y","z">>

Range(seq) == {seq[i] : i \in 1..Len(seq)}

\* Number of whitespace characters str starts with, counted from position i.
RECURSIVE leading_from(_, _)
leading_from(str, i) ==
    IF i > Len(str) \/ str[i] \notin WHITESPACE
    THEN i - 1
    ELSE leading_from(str, i + 1)

\* Position of the last character of str that is no whitespace, from i down.
RECURSIVE trailing_from(_, _)
trailing_from(str, i) ==
    IF i < 1 \/ str[i] \notin WHITESPACE THEN i ELSE trailing_from(str, i - 1)

lstrip(str) == SubSeq(str, leading_from(str, 1) + 1, Len(str))

rstrip(str) == SubSeq(str, 1, trailing_from(str, Len(str)))

\* str.strip()
strip(str) == rstrip(lstrip(str))

lower_char(c) ==
    IF c \in Range(UPPERCASE)
    THEN LOWERCASE[CHOOSE i \in 1..Len(UPPERCASE) : UPPERCASE[i] = c]
    ELSE c

\* str.lower()
lower(str) == [i \in 1..Len(str) |-> lower_char(str[i])]

\* str.isdigit(): non-empty and every character is a digit character; the
\* superscript digits are digit characters that are not decimal characters.
isdigit(str) ==
    /\ str # <<>>
    /\ \A i \in 1..Len(str) : str[i] \in Range(DECIMAL) \cup {SUPERSCRIPT_TWO}

\* int(str) returns a value exactly when every character is a decimal one;
\* otherwise it raises ValueError.
int_raises(str) ==
    \/ str = <<>>
    \/ \E i \in 1..Len(str) : str[i] \notin Range(DECIMAL)

digit_value(c) == (CHOOSE i \in 1..Len(DECIMAL) : DECIMAL[i] = c) - 1

RECURSIVE int(_)
int(str) ==
    IF str = <<>>
    THEN 0
    ELSE 10 * int(SubSeq(str, 1, Len(str) - 1)) + digit_value(str[Len(str)])

\* str(n) / f"{n}" for a non-negative int
RECURSIVE format_int(_)
format_int(n) ==
    IF n < 10
    THEN <<DECIMAL[n + 1]>>
    ELSE format_int(n \div 10) \o <<DECIMAL[(n % 10) + 1]>>

\* input_with_help(): the line read is stripped; an empty value gives the
\* default (the empty string when there is no default).
input_with_help_unstripped(line, default) ==
    IF line # <<>> THEN line ELSE default

input_with_help(line, default) ==
    LET value == strip(line)
    IN  IF value # <<>> THEN value ELSE default

\* os.path.join(a, b) on POSIX
path_join_always_slash(a, b) == a \o <<"/">> \o b

path_join(a, b) ==
    IF b # <<>> /\ Head(b) = "/"
    THEN b
    ELSE IF a = <<>> \/ a[Len(a)] = "/"
         THEN a \o b
         ELSE a \o <<"/">> \o b

\* ------------------------------------------------------------------------
\* textwrap.dedent and str.strip on a text given as its lines
\* ------------------------------------------------------------------------

is_blank(line) == \A i \in 1..Len(line) : line[i] \in WHITESPACE

leading_ws(line) == SubSeq(line, 1, leading_from(line, 1))

\* The longest common prefix of two indentations.
common_prefix(a, b) ==
    LET same == {k \in 0..Len(a) :
                   k <= Len(b) /\ SubSeq(a, 1, k) = SubSeq(b, 1, k)}
    IN  SubSeq(a, 1, CHOOSE k \in same : \A m \in same : m <= k)

NO_MARGIN == <<"None">>

\* The margin textwrap.dedent finds: the common indentation of the lines
\* that are not blank, taken line after line from line i on.
RECURSIVE margin_of(_, _, _)
margin_of(lines, i, margin) ==
    IF i > Len(lines)
    THEN margin
    ELSE IF is_blank(lines[i])
         THEN margin_of(lines, i + 1, margin)
         ELSE margin_of(lines, i + 1,
                        IF margin = NO_MARGIN
                        THEN leading_ws(lines[i])
                        ELSE common_prefix(margin, leading_ws(lines[i])))

\* textwrap.dedent: whitespace-only lines become empty, and the longest
\* common leading whitespace of the other lines is removed from each of them.
dedent(lines) ==
    LET margin == margin_of(lines, 1, NO_MARGIN)
        width  == IF margin = NO_MARGIN THEN 0 ELSE Len(margin)
    IN  [i \in 1..Len(lines) |->
           IF is_blank(lines[i])
           THEN <<>>
           ELSE SubSeq(lines[i], width + 1, Len(lines[i]))]

\* str.strip() of a whole text: leading and trailing whitespace, newlines
\* included, is removed.
text_strip(lines) ==
    LET full == {i \in 1..Len(lines) : ~is_blank(lines[i])}
    IN  IF full = {}
        THEN << <<>> >>
        ELSE LET lo == CHOOSE i \in full : \A j \in full : i <= j
                 hi == CHOOSE i \in full : \A j \in full : j <= i
             IN  [i \in 1..(hi - lo + 1) |->
                    LET l  == lines[lo + i - 1]
                        l1 == IF i = 1 THEN lstrip(l) ELSE l
                    IN  IF i = hi - lo + 1 THEN rstrip(l1) ELSE l1]

\* text + "\n"
add_newline(lines) == Append(lines, <<>>)

\* ------------------------------------------------------------------------
\* Fixed paths and the two templates
\* ------------------------------------------------------------------------

NGINX_AVAILABLE == <<"/","e","t","c","/","n","g","i","n","x","/","s","i","t","e","s","-","a","v","a","i","l","a","b","l","e">>

NGINX_ENABLED == <<"/","e","t","c","/","n","g","i","n","x","/","s","i","t","e","s","-","e","n","a","b","l","e","d">>

SYSTEMD_DIR == <<"/","e","t","c","/","s","y","s","t","e","m","d","/","s","y","s","t","e","m">>

\* The number f"{listen_port}" falls back to.
DEFAULT_PORT == 80

default_root(name) == <<"/","v","a","r","/","w","w","w","/">> \o name

default_wsgi(name) == name \o <<".","w","s","g","i",":","a","p","p","l","i","c","a","t","i","o","n">>

derive_gunicorn_bin(venv) == path_join(path_join(venv, <<"b","i","n">>), <<"g","u","n","i","c","o","r","n">>)

derive_socket_path(name) == <<"/","r","u","n","/","g","u","n","i","c","o","r","n","-">> \o name \o <<".","s","o","c","k">>

service_path_of(name) == path_join(SYSTEMD_DIR, name \o <<".","s","e","r","v","i","c","e">>)

nginx_conf_path_of(name) == path_join(NGINX_AVAILABLE, name)

nginx_link_of(name) == path_join(NGINX_ENABLED, name)

\* The ExecStart entry of the unit template: four lines joined by backslashes.
exec_start_lines_two_workers(c) ==
    << <<" "," "," "," "," "," "," "," ","E","x","e","c","S","t","a","r","t","=">> \o c.gunicorn_bin \o <<" ","\\">>,
       <<" "," "," "," "," "," "," "," "," "," "," "," ","-","-","w","o","r","k","e","r","s"," ","2"," ","\\">>,
       <<" "," "," "," "," "," "," "," "," "," "," "," ","-","-","b","i","n","d"," ","u","n","i","x",":">> \o c.socket_path \o <<" ","\\">>,
       <<" "," "," "," "," "," "," "," "," "," "," "," ">> \o c.wsgi_module >>

exec_start_lines(c) ==
    << <<" "," "," "," "," "," "," "," ","E","x","e","c","S","t","a","r","t","=">> \o c.gunicorn_bin \o <<" ","\\">>,
       <<" "," "," "," "," "," "," "," "," "," "," "," ","-","-","w","o","r","k","e","r","s"," ","3"," ","\\">>,
       <<" "," "," "," "," "," "," "," "," "," "," "," ","-","-","b","i","n","d"," ","u","n","i","x",":">> \o c.socket_path \o <<" ","\\">>,
       <<" "," "," "," "," "," "," "," "," "," "," "," ">> \o c.wsgi_module >>

\* The f-string of service_content after interpolation, line by line.
service_template(c) ==
    << <<>>,
       <<" "," "," "," "," "," "," "," ","[","U","n","i","t","]">>,
       <<" "," "," "," "," "," "," "," ","D","e","s","c","r","i","p","t","i","o","n","=","G","u","n","i","c","o","r","n"," ","s","e","r","v","i","c","e"," ","f","o","r"," ">> \o c.project_name,
       <<" "," "," "," "," "," "," "," ","A","f","t","e","r","=","n","e","t","w","o","r","k",".","t","a","r","g","e","t">>,
       <<>>,
       <<" "," "," "," "," "," "," "," ","[","S","e","r","v","i","c","e","]">>,
       <<" "," "," "," "," "," "," "," ","U","s","e","r","=">> \o c.linux_user,
       <<" "," "," "," "," "," "," "," ","G","r","o","u","p","=">> \o c.linux_group,
       <<" "," "," "," "," "," "," "," ","W","o","r","k","i","n","g","D","i","r","e","c","t","o","r","y","=">> \o c.project_root,
       <<" "," "," "," "," "," "," "," ","E","n","v","i","r","o","n","m","e","n","t","=","\"","P","A","T","H","=">> \o c.venv_path \o <<"/","b","i","n","\"">> >>
    \o exec_start_lines(c) \o
    << <<>>,
       <<" "," "," "," "," "," "," "," ","R","e","s","t","a","r","t","=","a","l","w","a","y","s">>,
       <<" "," "," "," "," "," "," "," ","R","e","s","t","a","r","t","S","e","c","=","5">>,
       <<>>,
       <<" "," "," "," "," "," "," "," ","[","I","n","s","t","a","l","l","]">>,
       <<" "," "," "," "," "," "," "," ","W","a","n","t","e","d","B","y","=","m","u","l","t","i","-","u","s","e","r",".","t","a","r","g","e","t">>,
       <<" "," "," "," ">> >>

service_content(c) == add_newline(text_strip(dedent(service_template(c))))

\* The f-string of nginx_content after interpolation, line by line.
nginx_template(c) ==
    << <<>>,
       <<" "," "," "," "," "," "," "," ","s","e","r","v","e","r"," ","{">>,
       <<" "," "," "," "," "," "," "," "," "," "," "," ","#"," ","P","U","E","R","T","O"," ","P","Ú","B","L","I","C","O",":"," ","a","q","u","í"," ","e","s","c","u","c","h","a"," ","N","g","i","n","x"," ","h","a","c","i","a"," ","I","n","t","e","r","n","e","t">>,
       <<" "," "," "," "," "," "," "," "," "," "," "," ","l","i","s","t","e","n"," ">> \o format_int(c.listen_port) \o <<";">>,
       <<" "," "," "," "," "," "," "," "," "," "," "," ","s","e","r","v","e","r","_","n","a","m","e"," ">> \o c.domain \o <<";">>,
       <<>>,
       <<" "," "," "," "," "," "," "," "," "," "," "," ","#"," ","A","r","c","h","i","v","o","s"," ","e","s","t","á","t","i","c","o","s">>,
       <<" "," "," "," "," "," "," "," "," "," "," "," ","l","o","c","a","t","i","o","n"," ","/","s","t","a","t","i","c","/"," ","{">>,
       <<" "," "," "," "," "," "," "," "," "," "," "," "," "," "," "," ","a","l","i","a","s"," ">> \o c.static_root \o <<";">>,
       <<" "," "," "," "," "," "," "," "," "," "," "," ","}">>,
       <<>>,
       <<" "," "," "," "," "," "," "," "," "," "," "," ","#"," ","A","r","c","h","i","v","o","s"," ","m","u","l","t","i","m","e","d","i","a">>,
       <<" "," "," "," "," "," "," "," "," "," "," "," ","l","o","c","a","t","i","o","n"," ","/","m","e","d","i","a","/"," ","{">>,
       <<" "," "," "," "," "," "," "," "," "," "," "," "," "," "," "," ","a","l","i","a","s"," ">> \o c.media_root \o <<";">>,
       <<" "," "," "," "," "," "," "," "," "," "," "," ","}">>,
       <<>>,
       <<" "," "," "," "," "," "," "," "," "," "," "," ","#"," ","T","r","á","f","i","c","o"," ","h","a","c","i","a"," ","D","j","a","n","g","o"," ","(","G","u","n","i","c","o","r","n",","," ","i","n","t","e","r","n","o",","," ","p","o","r"," ","s","o","c","k","e","t",")">>,
       <<" "," "," "," "," "," "," "," "," "," "," "," ","l","o","c","a","t","i","o","n"," ","/"," ","{">>,
       <<" "," "," "," "," "," "," "," "," "," "," "," "," "," "," "," ","i","n","c","l","u","d","e"," ","p","r","o","x","y","_","p","a","r","a","m","s",";">>,
       <<" "," "," "," "," "," "," "," "," "," "," "," "," "," "," "," ","p","r","o","x","y","_","p","a","s","s"," ","h","t","t","p",":","/","/","u","n","i","x",":">> \o c.socket_path \o <<";">>,
       <<" "," "," "," "," "," "," "," "," "," "," "," "," "," "," "," ","p","r","o","x","y","_","r","e","a","d","_","t","i","m","e","o","u","t"," ","3","0","0",";">>,
       <<" "," "," "," "," "," "," "," "," "," "," "," ","}">>,
       <<" "," "," "," "," "," "," "," ","}">>,
       <<" "," "," "," ">> >>

nginx_content(c) == add_newline(text_strip(dedent(nginx_template(c))))

\* The URL printed at the end of a successful run.
example_url_without_placeholder(dom, port) ==
    IF port = 80
    THEN <<"h","t","t","p",":","/","/">> \o dom \o <<"/">>
    ELSE <<"h","t","t","p",":","/","/">> \o dom \o <<":">> \o format_int(port) \o <<"/">>

example_url(dom, port) ==
    IF dom = <<"_">>
    THEN <<"h","t","t","p",":","/","/","T","U","_","I","P",":">> \o format_int(port) \o <<"/">>
    ELSE IF port = 80
         THEN <<"h","t","t","p",":","/","/">> \o dom \o <<"/">>
         ELSE <<"h","t","t","p",":","/","/">> \o dom \o <<":">> \o format_int(port) \o <<"/">>

\* The commands handed to run().
cmd_ln(conf, link) == <<"l","n"," ","-","s"," ">> \o conf \o <<" ">> \o link

cmd_daemon_reload == <<"s","y","s","t","e","m","c","t","l"," ","d","a","e","m","o","n","-","r","e","l","o","a","d">>

cmd_enable(name) == <<"s","y","s","t","e","m","c","t","l"," ","e","n","a","b","l","e"," ">> \o name \o <<".","s","e","r","v","i","c","e">>

cmd_restart(name) == <<"s","y","s","t","e","m","c","t","l"," ","r","e","s","t","a","r","t"," ">> \o name \o <<".","s","e","r","v","i","c","e">>

cmd_nginx_t == <<"n","g","i","n","x"," ","-","t">>

cmd_reload_nginx == <<"s","y","s","t","e","m","c","t","l"," ","r","e","l","o","a","d"," ","n","g","i","n","x">>

\* ------------------------------------------------------------------------
\* What the operator may type, and the machine the script starts on
\* ------------------------------------------------------------------------

PROJECT == <<"a","b">>

ProjectNameInputs == {<<>>, <<" ">>, PROJECT}

DomainInputs == {<<>>, <<"_">>, <<"d",".","c">>}

PortAlphabet == {"8", SUPERSCRIPT_TWO}

PortInputs ==
    UNION {[1..n -> PortAlphabet] : n \in 0..MaxPortLen} \cup {<<" ","8"," ">>, <<"0","8","0">>, <<"a","b","c">>}

RootInputs == {<<>>, <<"/","r">>}

VenvInputs == {<<>>, <<"/","v","/">>}

UserInputs == {<<"u">>}

GroupInputs == {<<>>}

WsgiInputs == {<<>>, <<"w",":","a">>}

StaticInputs == {<<>>}

MediaInputs == {<<>>, <<"/","m","/">>}

ConfirmInputs == {<<>>, <<"n">>, <<"s","i">>, <<"s">>, <<"S">>, <<" ","s"," ">>}

Euids == {0, 1000}

\* Exit statuses of an external command.
ReturnCodes == {0, 1}

\* os.path.normpath for the absolute paths used as keys of the filesystem:
\* repeated and trailing slashes are dropped.
RECURSIVE norm_path(_)
norm_path(p) ==
    IF Len(p) <= 1
    THEN p
    ELSE IF p[1] = "/" /\ p[2] = "/"
         THEN norm_path(Tail(p))
         ELSE LET rest == norm_path(Tail(p))
              IN  IF rest = <<"/">> THEN <<p[1]>> ELSE <<p[1]>> \o rest

\* A directory path and every parent segment of it.
with_parents(p) ==
    LET q == norm_path(p)
    IN  {SubSeq(q, 1, k) : k \in {j \in 1..Len(q) : j = Len(q) \/ q[j + 1] = "/"}}

SystemDirs ==
    with_parents(NGINX_AVAILABLE) \cup with_parents(NGINX_ENABLED)
        \cup with_parents(SYSTEMD_DIR)

\* Project directories left by an earlier deployment.
EarlierDirs == with_parents(default_root(PROJECT) \o <<"/","s","t","a","t","i","c">>)

\* The machine before the run: a fresh one; one where the project was
\* deployed before (directories, and the enable-path a symlink to the site
\* file); one whose enable-path is a dangling symlink; one whose enable-path
\* is a regular file.
InitialMachines ==
    { [dirs |-> SystemDirs, symlinks |-> <<>>, files |-> <<>>],
      [dirs |-> SystemDirs \cup EarlierDirs,
       symlinks |-> (nginx_link_of(PROJECT) :> nginx_conf_path_of(PROJECT)),
       files |-> <<>>],
      [dirs |-> SystemDirs,
       symlinks |-> (nginx_link_of(PROJECT) :> <<"/","g","o","n","e">>), files |-> <<>>],
      [dirs |-> SystemDirs \cup EarlierDirs, symlinks |-> <<>>,
       files |-> (nginx_link_of(PROJECT) :> << <<"o","l","d">>, <<>> >>)] }

\* ------------------------------------------------------------------------
\* State
\* ------------------------------------------------------------------------

VARIABLES
    pc,              \* the statement main() is at
    stdin,           \* the line input() returned last
    project_name, domain, listen_port_raw, listen_port, project_root,
    venv_path, linux_user, linux_group, wsgi_module, static_root, media_root,
    gunicorn_bin, socket_path, cont,
    d_idx,           \* position of the loop over the three directories
    dirs,            \* filesystem: the directories
    files,           \* filesystem: regular files, path :> content
    symlinks,        \* filesystem: symbolic links, path :> target
    fs0,             \* the filesystem the run started on
    system,          \* what the control commands changed
    stdout,          \* what the script printed, in order
    effects,         \* the calls with side effects, in order, with outcome
    exit_code,       \* -1 while running
    exit_reason

cfgVars == <<project_name, domain, listen_port_raw, listen_port, project_root,
             venv_path, linux_user, linux_group, wsgi_module, static_root,
             media_root, gunicorn_bin, socket_path>>

fsVars == <<dirs, files, symlinks>>

exitVars == <<exit_code, exit_reason>>

vars == <<pc, stdin, cfgVars, cont, d_idx, fsVars, fs0, system, stdout,
          effects, exitVars>>

\* The configuration as one record.
Config ==
    [project_name |-> project_name, domain |-> domain,
     listen_port |-> listen_port, project_root |-> project_root,
     venv_path |-> venv_path, linux_user |-> linux_user,
     linux_group |-> linux_group, wsgi_module |-> wsgi_module,
     static_root |-> static_root, media_root |-> media_root,
     gunicorn_bin |-> gunicorn_bin, socket_path |-> socket_path]

Filesystem == [dirs |-> dirs, files |-> files, symlinks |-> symlinks]

NoSystemChange ==
    [daemon_reloaded |-> FALSE, enabled |-> FALSE, restarted |-> FALSE,
     nginx_tested |-> FALSE, nginx_reloaded |-> FALSE]

\* os.path.islink
islink(p) == norm_path(p) \in DOMAIN symlinks

\* os.path.exists: a directory, a file, or a symlink whose target exists
exists(p) ==
    LET q == norm_path(p)
        there(r) == r \in dirs \/ r \in DOMAIN files
    IN  \/ there(q)
        \/ q \in DOMAIN symlinks /\ there(norm_path(symlinks[q]))

\* The test of line 256.
link_present_exists_only(p) == exists(p)

link_present(p) == islink(p) \/ exists(p)

Init ==
    /\ pc = "start"
    /\ stdin = <<>>
    /\ project_name = <<>> /\ domain = <<>> /\ listen_port_raw = <<>>
    /\ listen_port = -1 /\ project_root = <<>> /\ venv_path = <<>>
    /\ linux_user = <<>> /\ linux_group = <<>> /\ wsgi_module = <<>>
    /\ static_root = <<>> /\ media_root = <<>> /\ gunicorn_bin = <<>>
    /\ socket_path = <<>> /\ cont = <<>>
    /\ d_idx = 1
    /\ \E m \in InitialMachines :
          dirs = m.dirs /\ files = m.files /\ symlinks = m.symlinks
    /\ fs0 = Filesystem
    /\ system = NoSystemChange
    /\ stdout = <<>>
    /\ effects = <<>>
    /\ exit_code = -1
    /\ exit_reason = "running"

\* The process ends: raise SystemExit, an uncaught exception, or the end of
\* the script.
Exit(code, why) ==
    /\ pc' = "exited"
    /\ exit_code' = code
    /\ exit_reason' = why

print(kind, arg) == stdout' = Append(stdout, [kind |-> kind, arg |-> arg])

\* ------------------------------------------------------------------------
\* The prompts
\* ------------------------------------------------------------------------

\* The guard at the bottom of the script: main() runs as root only.
CheckRoot ==
    /\ pc = "start"
    /\ \E euid \in Euids :
          IF euid # 0
          THEN /\ Exit(1, "not_root")
               /\ print("error", <<"r","o","o","t">>)
          ELSE /\ pc' = "project_name"
               /\ UNCHANGED <<exitVars, stdout>>
    /\ UNCHANGED <<stdin, cfgVars, cont, d_idx, fsVars, fs0, system, effects>>

PromptProjectName ==
    /\ pc = "project_name"
    /\ \E line \in ProjectNameInputs :
          /\ stdin' = line
          /\ project_name' = input_with_help(line, <<>>)
    /\ IF project_name' = <<>>
       THEN Exit(1, "no_project_name")
       ELSE pc' = "domain" /\ UNCHANGED exitVars
    /\ UNCHANGED <<domain, listen_port_raw, listen_port, project_root,
                   venv_path, linux_user, linux_group, wsgi_module,
                   static_root, media_root, gunicorn_bin, socket_path, cont,
                   d_idx, fsVars, fs0, system, stdout, effects>>

PromptDomain ==
    /\ pc = "domain"
    /\ \E line \in DomainInputs :
          /\ stdin' = line
          /\ domain' = input_with_help(line, <<"_">>)
    /\ pc' = "listen_port"
    /\ UNCHANGED <<project_name, listen_port_raw, listen_port, project_root,
                   venv_path, linux_user, linux_group, wsgi_module,
                   static_root, media_root, gunicorn_bin, socket_path, cont,
                   d_idx, fsVars, fs0, system, stdout, effects, exitVars>>

\* Lines 92-96: isdigit() decides between the fallback and int().
parse_port(raw) ==
    IF ~isdigit(raw)
    THEN [warn |-> TRUE, raises |-> FALSE, port |-> DEFAULT_PORT]
    ELSE IF int_raises(raw)
         THEN [warn |-> FALSE, raises |-> TRUE, port |-> -1]
         ELSE [warn |-> FALSE, raises |-> FALSE, port |-> int(raw)]

PromptListenPort ==
    /\ pc = "listen_port"
    /\ \E line \in PortInputs :
          /\ stdin' = line
          /\ listen_port_raw' = input_with_help(line, <<"8","0">>)
    /\ LET r == parse_port(listen_port_raw')
       IN  /\ listen_port' = r.port
           /\ IF r.warn
              THEN print("warn_port", format_int(DEFAULT_PORT))
              ELSE UNCHANGED stdout
           /\ IF r.raises
              THEN Exit(1, "ValueError")
              ELSE pc' = "project_root" /\ UNCHANGED exitVars
    /\ UNCHANGED <<project_name, domain, project_root, venv_path, linux_user,
                   linux_group, wsgi_module, static_root, media_root,
                   gunicorn_bin, socket_path, cont, d_idx, fsVars, fs0,
                   system, effects>>

PromptProjectRoot ==
    /\ pc = "project_root"
    /\ \E line \in RootInputs :
          /\ stdin' = line
          /\ project_root' = input_with_help(line, default_root(project_name))
    /\ pc' = "venv_path"
    /\ UNCHANGED <<project_name, domain, listen_port_raw, listen_port,
                   venv_path, linux_user, linux_group, wsgi_module,
                   static_root, media_root, gunicorn_bin, socket_path, cont,
                   d_idx, fsVars, fs0, system, stdout, effects, exitVars>>

PromptVenvPath ==
    /\ pc = "venv_path"
    /\ \E line \in VenvInputs :
          /\ stdin' = line
          /\ venv_path' =
                input_with_help(line, path_join(project_root, <<"v","e","n","v">>))
    /\ pc' = "linux_user"
    /\ UNCHANGED <<project_name, domain, listen_port_raw, listen_port,
                   project_root, linux_user, linux_group, wsgi_module,
                   static_root, media_root, gunicorn_bin, socket_path, cont,
                   d_idx, fsVars, fs0, system, stdout, effects, exitVars>>

PromptLinuxUser ==
    /\ pc = "linux_user"
    /\ \E line \in UserInputs :
          /\ stdin' = line
          /\ linux_user' = input_with_help(line, <<"w","w","w","-","d","a","t","a">>)
    /\ pc' = "linux_group"
    /\ UNCHANGED <<project_name, domain, listen_port_raw, listen_port,
                   project_root, venv_path, linux_group, wsgi_module,
                   static_root, media_root, gunicorn_bin, socket_path, cont,
                   d_idx, fsVars, fs0, system, stdout, effects, exitVars>>

PromptLinuxGroup ==
    /\ pc = "linux_group"
    /\ \E line \in GroupInputs :
          /\ stdin' = line
          /\ linux_group' = input_with_help(line, <<"w","w","w","-","d","a","t","a">>)
    /\ pc' = "wsgi_module"
    /\ UNCHANGED <<project_name, domain, listen_port_raw, listen_port,
                   project_root, venv_path, linux_user, wsgi_module,
                   static_root, media_root, gunicorn_bin, socket_path, cont,
                   d_idx, fsVars, fs0, system, stdout, effects, exitVars>>

PromptWsgiModule ==
    /\ pc = "wsgi_module"
    /\ \E line \in WsgiInputs :
          /\ stdin' = line
          /\ wsgi_module' = input_with_help(line, default_wsgi(project_name))
    /\ pc' = "static_root"
    /\ UNCHANGED <<project_name, domain, listen_port_raw, listen_port,
                   project_root, venv_path, linux_user, linux_group,
                   static_root, media_root, gunicorn_bin, socket_path, cont,
                   d_idx, fsVars, fs0, system, stdout, effects, exitVars>>

PromptStaticRoot ==
    /\ pc = "static_root"
    /\ \E line \in StaticInputs :
          /\ stdin' = line
          /\ static_root' = input_with_help(line, project_root \o <<"/","s","t","a","t","i","c","/">>)
    /\ pc' = "media_root"
    /\ UNCHANGED <<project_name, domain, listen_port_raw, listen_port,
                   project_root, venv_path, linux_user, linux_group,
                   wsgi_module, media_root, gunicorn_bin, socket_path, cont,
                   d_idx, fsVars, fs0, system, stdout, effects, exitVars>>

PromptMediaRoot ==
    /\ pc = "media_root"
    /\ \E line \in MediaInputs :
          /\ stdin' = line
          /\ media_root' = input_with_help(line, project_root \o <<"/","m","e","d","i","a","/">>)
    /\ pc' = "summary"
    /\ UNCHANGED <<project_name, domain, listen_port_raw, listen_port,
                   project_root, venv_path, linux_user, linux_group,
                   wsgi_module, static_root, gunicorn_bin, socket_path, cont,
                   d_idx, fsVars, fs0, system, stdout, effects, exitVars>>

\* Lines 154-177: the derived fields, then the summary.
Summary ==
    /\ pc = "summary"
    /\ gunicorn_bin' = derive_gunicorn_bin(venv_path)
    /\ socket_path' = derive_socket_path(project_name)
    /\ print("summary",
             [Config EXCEPT !.gunicorn_bin = gunicorn_bin',
                            !.socket_path = socket_path'])
    /\ pc' = "confirm"
    /\ UNCHANGED <<stdin, project_name, domain, listen_port_raw, listen_port,
                   project_root, venv_path, linux_user, linux_group,
                   wsgi_module, static_root, media_root, cont, d_idx, fsVars,
                   fs0, system, effects, exitVars>>

\* Line 179: what is compared with "s".
answer_as_typed(line) == strip(line)

answer(line) == lower(strip(line))

\* Line 180
declined_only_on_n(c) == c = <<"n">>

declined(c) == c # <<"s">>

Confirm ==
    /\ pc = "confirm"
    /\ \E line \in ConfirmInputs :
          /\ stdin' = line
          /\ cont' = answer(line)
    /\ IF declined(cont')
       THEN Exit(1, "declined")
       ELSE pc' = "makedirs" /\ UNCHANGED exitVars
    /\ UNCHANGED <<cfgVars, d_idx, fsVars, fs0, system, stdout, effects>>

\* ------------------------------------------------------------------------
\* Provisioning and activation
\* ------------------------------------------------------------------------

\* run(): the command is announced and executed; check=True raises
\* CalledProcessError on a non-zero exit status, which nothing catches.
run_unchecked(cmd, rc, next) ==
    /\ print("run", cmd)
    /\ effects' = Append(effects, [op |-> "run", arg |-> cmd, ok |-> rc = 0])
    /\ pc' = next
    /\ UNCHANGED exitVars

run(cmd, rc, next) ==
    /\ print("run", cmd)
    /\ effects' = Append(effects, [op |-> "run", arg |-> cmd, ok |-> rc = 0])
    /\ IF rc = 0
       THEN pc' = next /\ UNCHANGED exitVars
       ELSE Exit(1, "CalledProcessError")

\* write_file(): the file is created or overwritten; an OSError ends the run.
write_file(path, content, next) ==
    /\ print("write", path)
    /\ \E ok \in BOOLEAN :
          /\ effects' =
                Append(effects, [op |-> "write_file", arg |-> path, ok |-> ok])
          /\ IF ok
             THEN /\ files' = (norm_path(path) :> content) @@ files
                  /\ pc' = next
                  /\ UNCHANGED exitVars
             ELSE /\ UNCHANGED files
                  /\ Exit(1, "OSError")

\* Lines 186-189, one turn of the loop.
MakeDir ==
    /\ pc = "makedirs"
    /\ LET d == <<project_root, static_root, media_root>>[d_idx]
           advance == IF d_idx = 3
                      THEN pc' = "write_service" /\ d_idx' = d_idx
                      ELSE pc' = pc /\ d_idx' = d_idx + 1
       IN  IF exists(d)
           THEN advance /\ UNCHANGED <<dirs, stdout, effects, exitVars>>
           ELSE /\ print("mkdir", d)
                /\ \E ok \in BOOLEAN :
                      /\ effects' = Append(effects,
                            [op |-> "makedirs", arg |-> d, ok |-> ok])
                      /\ IF ok
                         THEN /\ dirs' = dirs \cup with_parents(d)
                              /\ advance
                              /\ UNCHANGED exitVars
                         ELSE /\ Exit(1, "OSError")
                              /\ UNCHANGED <<dirs, d_idx>>
    /\ UNCHANGED <<stdin, cfgVars, cont, files, symlinks, fs0, system>>

WriteService ==
    /\ pc = "write_service"
    /\ write_file(service_path_of(project_name), service_content(Config),
                  "write_nginx")
    /\ UNCHANGED <<stdin, cfgVars, cont, d_idx, dirs, symlinks, fs0, system>>

WriteNginx ==
    /\ pc = "write_nginx"
    /\ write_file(nginx_conf_path_of(project_name), nginx_content(Config),
                  "link")
    /\ UNCHANGED <<stdin, cfgVars, cont, d_idx, dirs, symlinks, fs0, system>>

\* Lines 255-259
LinkSite ==
    /\ pc = "link"
    /\ LET conf == nginx_conf_path_of(project_name)
           link == nginx_link_of(project_name)
       IN  IF link_present(link)
           THEN /\ print("skip_link", link)
                /\ pc' = "daemon_reload"
                /\ UNCHANGED <<symlinks, effects, exitVars>>
           ELSE \E rc \in ReturnCodes :
                   /\ run(cmd_ln(conf, link), rc, "daemon_reload")
                   /\ symlinks' = IF rc = 0
                                  THEN (norm_path(link) :> conf) @@ symlinks
                                  ELSE symlinks
    /\ UNCHANGED <<stdin, cfgVars, cont, d_idx, dirs, files, fs0, system>>

DaemonReload ==
    /\ pc = "daemon_reload"
    /\ \E rc \in ReturnCodes :
          /\ run(cmd_daemon_reload, rc, "enable")
          /\ system' = [system EXCEPT !.daemon_reloaded = @ \/ rc = 0]
    /\ UNCHANGED <<stdin, cfgVars, cont, d_idx, fsVars, fs0>>

EnableUnit ==
    /\ pc = "enable"
    /\ \E rc \in ReturnCodes :
          /\ run(cmd_enable(project_name), rc, "restart")
          /\ system' = [system EXCEPT !.enabled = @ \/ rc = 0]
    /\ UNCHANGED <<stdin, cfgVars, cont, d_idx, fsVars, fs0>>

RestartUnit_then_reload ==
    /\ pc = "restart"
    /\ \E rc \in ReturnCodes :
          /\ run(cmd_restart(project_name), rc, "reload_nginx")
          /\ system' = [system EXCEPT !.restarted = @ \/ rc = 0]
    /\ UNCHANGED <<stdin, cfgVars, cont, d_idx, fsVars, fs0>>

RestartUnit ==
    /\ pc = "restart"
    /\ \E rc \in ReturnCodes :
          /\ run(cmd_restart(project_name), rc, "nginx_t")
          /\ system' = [system EXCEPT !.restarted = @ \/ rc = 0]
    /\ UNCHANGED <<stdin, cfgVars, cont, d_idx, fsVars, fs0>>

NginxTest ==
    /\ pc = "nginx_t"
    /\ \E rc \in ReturnCodes :
          /\ run(cmd_nginx_t, rc, "reload_nginx")
          /\ system' = [system EXCEPT !.nginx_tested = @ \/ rc = 0]
    /\ UNCHANGED <<stdin, cfgVars, cont, d_idx, fsVars, fs0>>

ReloadNginx ==
    /\ pc = "reload_nginx"
    /\ \E rc \in ReturnCodes :
          /\ run(cmd_reload_nginx, rc, "report")
          /\ system' = [system EXCEPT !.nginx_reloaded = @ \/ rc = 0]
    /\ UNCHANGED <<stdin, cfgVars, cont, d_idx, fsVars, fs0>>

\* Lines 274-288, then the script ends.
Report ==
    /\ pc = "report"
    /\ print("url", example_url(domain, listen_port))
    /\ Exit(0, "done")
    /\ UNCHANGED <<stdin, cfgVars, cont, d_idx, fsVars, fs0, system, effects>>

Next ==
    \/ CheckRoot
    \/ PromptProjectName
    \/ PromptDomain
    \/ PromptListenPort
    \/ PromptProjectRoot
    \/ PromptVenvPath
    \/ PromptLinuxUser
    \/ PromptLinuxGroup
    \/ PromptWsgiModule
    \/ PromptStaticRoot
    \/ PromptMediaRoot
    \/ Summary
    \/ Confirm
    \/ MakeDir
    \/ WriteService
    \/ WriteNginx
    \/ LinkSite
    \/ DaemonReload
    \/ EnableUnit
    \/ RestartUnit
    \/ NginxTest
    \/ ReloadNginx
    \/ Report

Spec == Init /\ [][Next]_vars

\* ------------------------------------------------------------------------
\* Properties
\* ------------------------------------------------------------------------

BeforeConfirmation ==
    pc \in {"start", "project_name", "domain", "listen_port", "project_root",
            "venv_path", "linux_user", "linux_group", "wsgi_module",
            "static_root", "media_root", "summary", "confirm"}

EndedEarly ==
    exit_reason \in {"not_root", "no_project_name", "ValueError", "declined"}

PastConfirmation ==
    \/ pc \in {"makedirs", "write_service", "write_nginx", "link",
               "daemon_reload", "enable", "restart", "nginx_t",
               "reload_nginx", "report"}
    \/ exit_reason \in {"OSError", "CalledProcessError", "done"}

Printed(kind) == {i \in 1..Len(stdout) : stdout[i].kind = kind}

NoSideEffects ==
    /\ Filesystem = fs0
    /\ effects = <<>>
    /\ system = NoSystemChange
    /\ Printed("mkdir") \cup Printed("write") \cup Printed("run") = {}

Affirmative(line) == lower(strip(line)) = <<"s">>

\* C1: nothing is created, written, linked or run before the operator has
\* answered the confirmation prompt, and a run whose answer is not the
\* affirmative one ends with none of these ever done.
C1_NoSideEffectBeforeConfirmation ==
    /\ BeforeConfirmation => NoSideEffects
    /\ EndedEarly => pc = "exited" /\ exit_code = 1 /\ NoSideEffects
    /\ ~NoSideEffects => PastConfirmation /\ Affirmative(stdin)
    /\ PastConfirmation \/ exit_reason = "declined" =>
          (Affirmative(stdin) <=> PastConfirmation)

C1_Witness ==
    /\ pc = "exited" /\ exit_reason = "declined"
    /\ stdin = <<"n">>
    /\ Cardinality(Printed("summary")) = 1
    /\ NoSideEffects

\* C2 as stated: the run goes on to the provisioning steps only when the
\* answer typed is exactly the letter "s", compared case-sensitively.
C2_ExactLowercaseS ==
    /\ PastConfirmation => stdin = <<"s">>
    /\ exit_reason = "declined" => stdin # <<"s">>

\* C2, amended: the run goes on exactly when the answer, with surrounding
\* whitespace removed and put in lower case, is "s"; every other answer
\* ends the run.
C2_ConfirmationIgnoresCaseAndBlanks ==
    /\ PastConfirmation => lower(strip(stdin)) = <<"s">> /\ cont = <<"s">>
    /\ exit_reason = "declined" =>
          /\ lower(strip(stdin)) # <<"s">>
          /\ pc = "exited" /\ exit_code = 1

C2_Witness ==
    /\ pc = "makedirs" /\ d_idx = 1 /\ effects = <<>>
    /\ stdin = <<"S">>

\* C3: an empty or blank project name ends the process with exit status 1
\* right after the first prompt: nothing else is asked and nothing is done.
C3_EmptyProjectNameAborts ==
    /\ exit_reason = "no_project_name" =>
          /\ pc = "exited" /\ exit_code = 1
          /\ is_blank(stdin)
          /\ domain = <<>> /\ listen_port_raw = <<>> /\ project_root = <<>>
          /\ venv_path = <<>> /\ linux_user = <<>> /\ linux_group = <<>>
          /\ wsgi_module = <<>> /\ static_root = <<>> /\ media_root = <<>>
          /\ cont = <<>>
          /\ stdout = <<>>
          /\ NoSideEffects
    /\ pc = "domain" => ~is_blank(stdin)
    /\ pc \notin {"start", "project_name"} /\ exit_reason # "not_root"
          /\ exit_reason # "no_project_name"
          => ~is_blank(project_name)

C3_Witness ==
    /\ pc = "exited" /\ exit_reason = "no_project_name"
    /\ stdin = <<" ">>
    /\ exit_code = 1

\* The place of a side effect in the fixed order; 0 for anything else.
Stage(e) ==
    CASE e.op = "makedirs" -> 1
      [] e.op = "write_file" /\ e.arg = service_path_of(project_name) -> 2
      [] e.op = "write_file" /\ e.arg = nginx_conf_path_of(project_name) -> 3
      [] e.op = "run" /\ e.arg = cmd_ln(nginx_conf_path_of(project_name),
                                        nginx_link_of(project_name)) -> 4
      [] e.op = "run" /\ e.arg = <<"s","y","s","t","e","m","c","t","l"," ","d","a","e","m","o","n","-","r","e","l","o","a","d">> -> 5
      [] e.op = "run" /\ e.arg = cmd_enable(project_name) -> 6
      [] e.op = "run" /\ e.arg = cmd_restart(project_name) -> 7
      [] e.op = "run" /\ e.arg = <<"n","g","i","n","x"," ","-","t">> -> 8
      [] e.op = "run" /\ e.arg = <<"s","y","s","t","e","m","c","t","l"," ","r","e","l","o","a","d"," ","n","g","i","n","x">> -> 9
      [] OTHER -> 0

\* C4: the side effects come in the fixed order, each one only after all
\* the earlier ones succeeded; the steps that are never skipped (the two
\* writes and the five control commands) all precede any later step.
C4_FixedOrder ==
    /\ \A i \in 1..Len(effects) : Stage(effects[i]) # 0
    /\ \A i \in 1..Len(effects) : i < Len(effects) => effects[i].ok
    /\ \A i, j \in 1..Len(effects) :
          i < j =>
             \/ Stage(effects[i]) < Stage(effects[j])
             \/ Stage(effects[i]) = 1 /\ Stage(effects[j]) = 1
    /\ \A j \in 1..Len(effects) :
          \A st \in {2, 3, 5, 6, 7, 8} :
             st < Stage(effects[j]) =>
                \E i \in 1..(j - 1) : Stage(effects[i]) = st /\ effects[i].ok
    /\ system.nginx_reloaded => system.nginx_tested
    /\ effects # <<>> => PastConfirmation

C4_Witness ==
    /\ pc = "exited" /\ exit_reason = "done"
    /\ Len(effects) = 11
    /\ system.nginx_reloaded

HasFailedRun(log) ==
    \E i \in 1..Len(log) : log[i].op = "run" /\ ~log[i].ok

\* C5: a command that returns a non-zero status ends the process at once
\* with a non-zero status; the failing step and everything after it change
\* nothing of what the earlier steps did, and no step follows it.
C5_FailedCommandIsFatal ==
    [][ /\ ~HasFailedRun(effects)
        /\ HasFailedRun(effects') =>
              /\ pc' = "exited"
              /\ exit_code' # 0 /\ exit_code' # -1
              /\ exit_reason' = "CalledProcessError"
              /\ Filesystem' = Filesystem
              /\ system' = system
              /\ Len(effects') = Len(effects) + 1
      ]_vars

C5_Witness ==
    /\ pc = "exited" /\ exit_reason = "CalledProcessError"
    /\ effects[Len(effects)].arg = cmd_restart(project_name)
    /\ ~effects[Len(effects)].ok
    /\ system.enabled /\ ~system.restarted
    /\ service_path_of(project_name) \in DOMAIN files
    /\ project_root \in dirs

\* The enable-path is there: as a symlink (dangling or not), a file or a
\* directory.
EnablePathTaken ==
    LET link == nginx_link_of(project_name)
    IN  link \in DOMAIN symlinks \/ link \in DOMAIN files \/ link \in dirs

LnRuns(log) ==
    {i \in 1..Len(log) :
        /\ log[i].op = "run"
        /\ Len(log[i].arg) >= 3
        /\ SubSeq(log[i].arg, 1, 3) = <<"l","n"," ">>}

\* C6: when the enable-path exists at the activation step, the script says
\* so, runs no ln, changes nothing and goes on to the control commands; when
\* it does not, ln -s <sites-available file> <enable-path> runs exactly once.
C6_SymlinkStep ==
    [][ pc = "link" =>
          LET link == nginx_link_of(project_name)
              conf == nginx_conf_path_of(project_name)
          IN  /\ LnRuns(effects) = {}
              /\ IF EnablePathTaken
                 THEN /\ stdout' = Append(stdout,
                                      [kind |-> "skip_link", arg |-> link])
                      /\ effects' = effects
                      /\ Filesystem' = Filesystem
                      /\ pc' = "daemon_reload"
                      /\ exit_code' = -1
                 ELSE /\ Len(effects') = Len(effects) + 1
                      /\ LnRuns(effects') = {Len(effects')}
                      /\ effects'[Len(effects')].arg =
                            <<"l","n"," ","-","s"," ","/","e","t","c","/","n","g","i","n","x","/","s","i","t","e","s","-","a","v","a","i","l","a","b","l","e","/">> \o project_name
                               \o <<" ","/","e","t","c","/","n","g","i","n","x","/","s","i","t","e","s","-","e","n","a","b","l","e","d","/">> \o project_name
                      /\ effects'[Len(effects')].ok =>
                            /\ symlinks' = (link :> conf) @@ symlinks
                            /\ pc' = "daemon_reload"
      ]_vars

C6_Witness ==
    /\ pc = "exited" /\ exit_reason = "done"
    /\ Cardinality(Printed("skip_link")) = 1
    /\ LnRuns(effects) = {}
    /\ nginx_link_of(project_name) \in DOMAIN symlinks
    /\ symlinks[nginx_link_of(project_name)] = <<"/","g","o","n","e">>
    /\ system.nginx_reloaded

DecimalNumber(str) ==
    str # <<>> /\ \A i \in 1..Len(str) : str[i] \in Range(DECIMAL)

\* The port C7 gives for a line typed at the port prompt.
ClaimedPort(line) ==
    LET typed == strip(line)
    IN  IF typed = <<>> THEN 80
        ELSE IF DecimalNumber(typed) THEN int(typed) ELSE 80

Shown == stdout[CHOOSE i \in Printed("summary") : TRUE].arg

Written(path) ==
    \E i \in 1..Len(effects) :
       effects[i] = [op |-> "write_file", arg |-> path, ok |-> TRUE]

LastPrinted == stdout[Len(stdout)]

\* C7: whatever is typed at the port prompt, the run goes on with a port:
\* 80 for an empty or a non-numeric input (the latter with one warning),
\* the integer typed otherwise; and that port is the one in the summary, in
\* the listen directive and in the URL.
C7_EveryPortInputGivesAPort ==
    /\ exit_reason # "ValueError"
    /\ pc = "project_root" =>
          /\ listen_port = ClaimedPort(stdin)
          /\ Cardinality(Printed("warn_port")) =
                (IF strip(stdin) # <<>> /\ ~DecimalNumber(strip(stdin))
                 THEN 1 ELSE 0)
    /\ Printed("summary") # {} => Shown.listen_port = listen_port
    /\ Written(nginx_conf_path_of(project_name)) =>
          files[nginx_conf_path_of(project_name)][3] =
             <<" "," "," "," ","l","i","s","t","e","n"," ">> \o format_int(listen_port) \o <<";">>

\* C8: an empty domain input gives the domain "_"; the URL reported is
\* http://TU_IP:<port>/ for the domain "_" whatever the port, http://<domain>/
\* for another domain on port 80, http://<domain>:<port>/ otherwise.
C8_DomainDefaultAndExampleUrl ==
    /\ pc = "listen_port" /\ is_blank(stdin) => domain = <<"_">>
    /\ exit_reason = "done" =>
          /\ LastPrinted.kind = "url"
          /\ domain = <<"_">> =>
                LastPrinted.arg =
                   <<"h","t","t","p",":","/","/","T","U","_","I","P",":">> \o format_int(listen_port) \o <<"/">>
          /\ domain # <<"_">> /\ listen_port = 80 =>
                LastPrinted.arg = <<"h","t","t","p",":","/","/">> \o domain \o <<"/">>
          /\ domain # <<"_">> /\ listen_port # 80 =>
                LastPrinted.arg =
                   <<"h","t","t","p",":","/","/">> \o domain \o <<":">> \o format_int(listen_port)
                      \o <<"/">>
    /\ Printed("url") # {} => exit_reason = "done"

C8_Witness ==
    /\ exit_reason = "done"
    /\ domain = <<"_">> /\ listen_port = 80
    /\ LastPrinted = [kind |-> "url", arg |-> <<"h","t","t","p",":","/","/","T","U","_","I","P",":","8","0","/">>]

CommandsOf(name) ==
    { <<"l","n"," ","-","s"," ","/","e","t","c","/","n","g","i","n","x","/","s","i","t","e","s","-","a","v","a","i","l","a","b","l","e","/">> \o name
         \o <<" ","/","e","t","c","/","n","g","i","n","x","/","s","i","t","e","s","-","e","n","a","b","l","e","d","/">> \o name,
      <<"s","y","s","t","e","m","c","t","l"," ","d","a","e","m","o","n","-","r","e","l","o","a","d">>,
      <<"s","y","s","t","e","m","c","t","l"," ","e","n","a","b","l","e"," ">> \o name \o <<".","s","e","r","v","i","c","e">>,
      <<"s","y","s","t","e","m","c","t","l"," ","r","e","s","t","a","r","t"," ">> \o name \o <<".","s","e","r","v","i","c","e">>,
      <<"n","g","i","n","x"," ","-","t">>,
      <<"s","y","s","t","e","m","c","t","l"," ","r","e","l","o","a","d"," ","n","g","i","n","x">> }

\* What the summary showed is what the files, the commands and the report
\* use, and the configuration still has those values.
SummaryValuesAreUsed ==
    /\ Shown = Config
    /\ Written(service_path_of(Shown.project_name)) =>
          files[service_path_of(Shown.project_name)] = service_content(Shown)
    /\ Written(nginx_conf_path_of(Shown.project_name)) =>
          files[nginx_conf_path_of(Shown.project_name)] = nginx_content(Shown)
    /\ \A i \in 1..Len(effects) :
          effects[i].op = "run" =>
             effects[i].arg \in CommandsOf(Shown.project_name)
    /\ exit_reason = "done" =>
          LastPrinted.arg = example_url(Shown.domain, Shown.listen_port)

\* C9 as stated: from the summary on, gunicorn_bin is venv_path followed by
\* "/bin/gunicorn", socket_path is /run/gunicorn-<project_name>.sock, and no
\* field changes.
C9_GunicornBinIsVenvSlashBin ==
    Printed("summary") # {} =>
       /\ gunicorn_bin = venv_path \o <<"/","b","i","n","/","g","u","n","i","c","o","r","n">>
       /\ socket_path = <<"/","r","u","n","/","g","u","n","i","c","o","r","n","-">> \o project_name \o <<".","s","o","c","k">>
       /\ SummaryValuesAreUsed

\* C9, amended: gunicorn_bin is venv_path joined with bin/gunicorn the way
\* os.path.join does it: with a "/" between them unless venv_path already
\* ends in one.  The rest is as stated.
C9_DerivedFieldsFixedAtSummary ==
    Printed("summary") # {} =>
       /\ venv_path # <<>>
       /\ gunicorn_bin =
             venv_path \o (IF venv_path[Len(venv_path)] = "/"
                           THEN <<"b","i","n","/","g","u","n","i","c","o","r","n">>
                           ELSE <<"/","b","i","n","/","g","u","n","i","c","o","r","n">>)
       /\ socket_path = <<"/","r","u","n","/","g","u","n","i","c","o","r","n","-">> \o project_name \o <<".","s","o","c","k">>
       /\ SummaryValuesAreUsed

C9_Witness ==
    /\ exit_reason = "done"
    /\ venv_path = <<"/","v","/">>
    /\ gunicorn_bin = <<"/","v","/","b","i","n","/","g","u","n","i","c","o","r","n">>
    /\ Shown.gunicorn_bin = <<"/","v","/","b","i","n","/","g","u","n","i","c","o","r","n">>
    /\ Written(service_path_of(project_name))

starts_with(line, part) ==
    Len(part) <= Len(line) /\ SubSeq(line, 1, Len(part)) = part

contains(line, part) ==
    \E k \in 0..(Len(line) - Len(part)) :
       SubSeq(line, k + 1, k + Len(part)) = part

UnitFile == files[service_path_of(project_name)]

ExecStartAt ==
    {i \in 1..Len(UnitFile) : starts_with(UnitFile[i], <<"E","x","e","c","S","t","a","r","t","=">>)}

\* C10 as stated: a line of the unit file holds the whole command
\* <venv_path>/bin/gunicorn --workers 3 --bind unix:<socket> <wsgi_module>.
C10_ExecStartOnOneLine ==
    Written(service_path_of(project_name)) =>
       \E i \in ExecStartAt :
          contains(UnitFile[i],
                   venv_path \o <<"/","b","i","n","/","g","u","n","i","c","o","r","n"," ","-","-","w","o","r","k","e","r","s"," ","3"," ","-","-","b","i","n","d"," ","u","n","i","x",":">>
                      \o <<"/","r","u","n","/","g","u","n","i","c","o","r","n","-">> \o project_name \o <<".","s","o","c","k"," ">>
                      \o wsgi_module)

\* C10, amended: the unit file has one ExecStart entry, spread over four
\* lines that end in " \" but the last: ExecStart=<gunicorn_bin>, --workers 3,
\* --bind unix:/run/gunicorn-<project_name>.sock and <wsgi_module>, the last
\* three indented by four spaces; gunicorn_bin is venv_path joined with
\* bin/gunicorn by a single "/".
C10_ExecStartEntry ==
    Written(service_path_of(project_name)) =>
       /\ Cardinality(ExecStartAt) = 1
       /\ \A i \in ExecStartAt :
             /\ i + 4 <= Len(UnitFile)
             /\ UnitFile[i] =
                   <<"E","x","e","c","S","t","a","r","t","=">> \o venv_path
                      \o (IF venv_path[Len(venv_path)] = "/"
                          THEN <<"b","i","n","/","g","u","n","i","c","o","r","n">>
                          ELSE <<"/","b","i","n","/","g","u","n","i","c","o","r","n">>)
                      \o <<" ","\\">>
             /\ UnitFile[i + 1] = <<" "," "," "," ","-","-","w","o","r","k","e","r","s"," ","3"," ","\\">>
             /\ UnitFile[i + 2] =
                   <<" "," "," "," ","-","-","b","i","n","d"," ","u","n","i","x",":","/","r","u","n","/","g","u","n","i","c","o","r","n","-">> \o project_name
                      \o <<".","s","o","c","k"," ","\\">>
             /\ UnitFile[i + 3] = <<" "," "," "," ">> \o wsgi_module
             /\ UnitFile[i + 4] = <<>>

C10_Witness ==
    /\ Written(service_path_of(project_name))
    /\ wsgi_module = <<"w",":","a">>
    /\ venv_path = <<"/","v","a","r","/","w","w","w","/","a","b","/","v","e","n","v">>
    /\ UnitFile[10] = <<"E","x","e","c","S","t","a","r","t","=","/","v","a","r","/","w","w","w","/","a","b","/","v","e","n","v","/","b","i","n","/","g","u","n","i","c","o","r","n"," ","\\">>
    /\ UnitFile[13] = <<" "," "," "," ","w",":","a">>

====
